---- MODULE Spec2Model ----
(***************************************************************************)
(* HighsMipSolver::run() (src/src/mip/HighsMipSolver.cpp) as a state       *)
(* machine: one action per statement group of run(), pc naming the place   *)
(* in run().  The collaborators run() drives (HighsSearch, HighsNodeQueue, *)
(* HighsDomain, HighsLpRelaxation, HighsSeparation, HighsMipSolverData)    *)
(* are not part of the sources at hand; their operations are modelled from *)
(* the design document (sections 4.1 - 4.6).                               *)
(* The deprecated accessors of class Highs                                 *)
(* (src/src/lp_data/HighsDeprecated.cpp) are modelled next to it, on the   *)
(* variable highs.                                                         *)
(***************************************************************************)
EXTENDS Integers, Sequences, FiniteSets, TLC

\* ---------------------------------------------------------------- bounds
\* objective values (node lower bounds, estimates, incumbents) are 0..MaxBound
MaxBound == 1
\* number of nodes kept explicitly (ids 1..MaxId)
MaxId == 3
\* the long dive: one dive evaluates 1 node or BigDive nodes
BigDive == 500
\* columns of the global domain
NumCols == 1
\* LP iterations of one relaxation solve, when it needs any
SolveIters == 5

\* ------------------------------------------------------- program constants
\* a plunge stops once it has created this many nodes
PlungeCap == 1000
\* the dive iteration limit is this multiple of the mean iterations per node
IterMult == 10
\* the largest counts of LP iterations and of nodes the limit is computed for
MaxIters == 12
MaxNodes == 8
\* the option of the Highs object has the values 0..MaxOpt
MaxOpt == 2
\* number of calls of the Highs accessors followed
MaxCalls == 2

\* +infinity for objective values (HIGHS_CONST_INF), above every finite value
Inf == MaxBound + 1
\* setIterationLimit() without argument: no limit
NoLimit == 0 - 1
\* the controller's "no node" and the leaf a dive ends at
NoNode == [id |-> 0, lb |-> 0, est |-> 0]

Min2(a, b) == IF a <= b THEN a ELSE b
Max2(a, b) == IF a >= b THEN a ELSE b

VARIABLES
  pc,                \* the place in run()
  nodequeue,         \* mipdata_->nodequeue: the set of queued nodes
  cur,               \* the node the search controller is at (NoNode: none)
  curState,          \* "none" | "installed" | "evaluated" | "pruned" | "limit"
  open,              \* the controller's open siblings, most recent last
  stalled,           \* nodes of this plunge whose capped solve hit the limit
  nextId,            \* the id of the next node created
  closed,            \* ids of the nodes closed so far
  num_nodes,         \* mipdata_->num_nodes
  num_leaves,        \* mipdata_->num_leaves
  plungestart,       \* run()'s local plungestart
  lower_bound,       \* mipdata_->lower_bound
  upper_bound,       \* mipdata_->upper_bound (Inf: no incumbent)
  iterlimit,         \* the relaxation's iteration limit (NoLimit: none)
  lpIters,           \* mipdata_->lp.getNumLpIterations()
  solveIters,        \* the iterations one relaxation solve of this model takes
  lpStatus,          \* mipdata_->lp.getStatus()
  storedBasis,       \* the basis the relaxation has stored (0: none)
  basis,             \* run()'s local shared_ptr basis (0: null)
  infeasible,        \* mipdata_->domain.infeasible()
  changedCols,       \* mipdata_->domain.getChangedCols()
  domchgstack,       \* length of the global domain's change stack
  localdomSynced,    \* the controller's local domain equals the global one
  pruned_treeweight, \* mipdata_->pruned_treeweight: "partial" | "full"
  shouldStop,        \* the external limiter's should-stop signal
  hist,              \* history of the run, read by the properties only
  highs              \* the Highs object and the last call of an accessor

vars == <<pc, nodequeue, cur, curState, open, stalled, nextId, closed, num_nodes,
          num_leaves, plungestart, lower_bound, upper_bound, iterlimit,
          lpIters, solveIters, lpStatus, storedBasis, basis, infeasible,
          changedCols, domchgstack, localdomSynced, pruned_treeweight, shouldStop, hist, highs>>

\* the variables of run()
runVars == <<pc, nodequeue, cur, curState, open, stalled, nextId, closed,
             num_nodes, num_leaves, plungestart, lower_bound, upper_bound,
             iterlimit, lpIters, solveIters, lpStatus, storedBasis, basis,
             infeasible, changedCols, domchgstack, localdomSynced,
             pruned_treeweight, shouldStop, hist>>

Cols == 1..NumCols
DiveLens == {1, BigDive}
Range(s) == {s[i] : i \in DOMAIN s}
Ids(S) == {n.id : n \in S}

\* (lower bound, estimate) pairs of a node created below a node of bound lo
Shapes(lo) == UNION {{<<b, e>> : e \in b..MaxBound} : b \in lo..MaxBound}
\* the sequences of m new nodes with ids first, first+1, ...
NewNodes(first, m, lo) ==
  {[i \in 1..m |-> [id |-> first + i - 1, lb |-> s[i][1], est |-> s[i][2]]] :
     s \in [1..m -> Shapes(lo)]}

\* ------------------------------------------------------------ node queue
\* HighsNodeQueue::getBestLowerBound: the least bound queued, the incumbent
\* bound when nothing is queued
getBestLowerBound(q, ub) ==
  IF q = {} THEN ub
  ELSE CHOOSE b \in {n.lb : n \in q} : \A n \in q : b <= n.lb

\* HighsNodeQueue::popBestBoundNode: the nodes it may remove
popBestBoundNode(q) == {n \in q : \A o \in q : n.lb <= o.lb}

\* HighsNodeQueue::popBestNode: the nodes of best (least) estimate
popBestNode(q) == {n \in q : \A o \in q : n.est <= o.est}

\* ------------------------------------------------------ search controller
\* HighsSearch::hasNode
hasNode == curState # "none"

\* the nodes the controller holds open: the current node unless it is
\* pruned, and the siblings collected while diving
heldOpen(c, st, o) ==
  (IF st \in {"installed", "evaluated"} THEN {c} ELSE {}) \cup Range(o)

\* HighsSearch::openNodesToQueue: the queue it leaves
openNodesToQueue(q, c, st, o) == q \cup heldOpen(c, st, o)

\* mipdata_->upper_limit: the incumbent cutoff
upper_limit == upper_bound

\* HighsSearch::getCurrentEstimate
getCurrentEstimate == cur.est

\* HighsSearch::currentNodePruned
currentNodePruned == curState = "pruned"

\* ------------------------------------------------------------ history
\* hist after a step of the tree search (installNode, dive, propagate,
\* evaluateNode, separate, storeBasis)
Did(h, name) ==
  [h EXCEPT !.searched = TRUE,
            !.afterStop = IF h.stopped THEN TRUE ELSE @]

\* ------------------------------------------- deprecated Highs accessors
\* the deprecated methods that name a replacement
Deprecated ==
  {"setHighsOptionValue", "readHighsOptions", "passHighsOptions",
   "getHighsOptionValue", "getHighsOptionType", "resetHighsOptions",
   "writeHighsOptions", "getHighsOptions", "getHighsInfo",
   "getHighsInfoValue", "writeHighsInfo", "getHighsInfinity",
   "getHighsRunTime"}

\* (variant: every deprecated method forwards to getOptions)
ForwardsToGetOptions(name) == "getOptions"

\* the method the body of the deprecated method `name` returns the result of
Forwards(name) ==
  CASE name = "setHighsOptionValue" -> "setOptionValue"
    [] name = "readHighsOptions" -> "readOptions"
    [] name = "passHighsOptions" -> "passOptions"
    [] name = "getHighsOptionValue" -> "getOptionValue"
    [] name = "getHighsOptionType" -> "getOptionType"
    [] name = "resetHighsOptions" -> "resetOptions"
    [] name = "writeHighsOptions" -> "writeOptions"
    [] name = "getHighsOptions" -> "getOptions"
    [] name = "getHighsInfo" -> "getInfo"
    [] name = "getHighsInfoValue" -> "getInfoValue"
    [] name = "writeHighsInfo" -> "writeInfo"
    [] name = "getHighsInfinity" -> "getInfinity"
    [] name = "getHighsRunTime" -> "getRunTime"

\* the two names the deprecated method `name` passes to deprecationMessage
Message(name) ==
  CASE name = "setHighsOptionValue" -> <<"setHighsOptionValue", "setOptionValue">>
    [] name = "readHighsOptions" -> <<"readHighsOptions", "readOptions">>
    [] name = "passHighsOptions" -> <<"passHighsOptions", "passOptions">>
    [] name = "getHighsOptionValue" -> <<"getHighsOptionValue", "getOptionValue">>
    [] name = "getHighsOptionType" -> <<"getHighsOptionType", "getOptionType">>
    [] name = "resetHighsOptions" -> <<"resetHighsOptions", "resetOptions">>
    [] name = "writeHighsOptions" -> <<"writeHighsOptions", "writeOptions">>
    [] name = "getHighsOptions" -> <<"getHighsOptions", "getOptions">>
    [] name = "getHighsInfo" -> <<"getHighsInfo", "getInfo">>
    [] name = "getHighsInfoValue" -> <<"getHighsInfoValue", "getInfoValue">>
    [] name = "writeHighsInfo" -> <<"writeHighsInfo", "writeInfo">>
    [] name = "getHighsInfinity" -> <<"getHighsInfinity", "getInfinity">>
    [] name = "getHighsRunTime" -> <<"getHighsRunTime", "getRunTime">>

\* the methods that replace them
Replacements == {Forwards(name) : name \in Deprecated}

\* the arguments of a call: an option value, valid (0..MaxOpt) or not
Args == 0..(MaxOpt + 1)

\* what a call fn(a) does on a Highs object whose option has the value opt:
\* the status and the value it returns and the value it leaves in the
\* option; `did` names the method whose output (log, file, reference
\* returned) was produced
CallOf(fn, opt, a) ==
  CASE fn \in {"setOptionValue", "readOptions", "passOptions"} ->
         IF a <= MaxOpt
           THEN [status |-> "kOk", value |-> 0, opt |-> a, did |-> fn]
           ELSE [status |-> "kError", value |-> 0, opt |-> opt, did |-> fn]
    [] fn = "resetOptions" ->
         [status |-> "kOk", value |-> 0, opt |-> 0, did |-> fn]
    [] fn \in {"getOptionValue", "getInfoValue"} ->
         IF a <= MaxOpt
           THEN [status |-> "kOk", value |-> opt, opt |-> opt, did |-> fn]
           ELSE [status |-> "kError", value |-> 0, opt |-> opt, did |-> fn]
    [] fn = "getOptionType" ->
         [status |-> IF a <= MaxOpt THEN "kOk" ELSE "kError", value |-> 0,
          opt |-> opt, did |-> fn]
    [] fn \in {"writeOptions", "writeInfo"} ->
         [status |-> "kOk", value |-> 0, opt |-> opt, did |-> fn]
    [] fn \in {"getOptions", "getInfo"} ->
         [status |-> "none", value |-> opt, opt |-> opt, did |-> fn]
    [] fn \in {"getInfinity", "getRunTime"} ->
         [status |-> "none", value |-> MaxOpt + 1, opt |-> opt, did |-> fn]

\* a Highs object as constructed, no accessor called yet
NewHighs ==
  [opt |-> 0, msgs |-> 0, calls |-> 0,
   last |-> [name |-> "none", fn |-> "none", arg |-> 0, pre |-> 0,
             msg |-> <<"none", "none">>, msgsBefore |-> 0,
             res |-> [status |-> "none", value |-> 0, opt |-> 0,
                      did |-> "none"]]]

\* HighsDeprecated.cpp: a call name(a) of a deprecated method:
\* deprecationMessage(old, new), then the result of the forwarded call
CallDeprecated(name, a) ==
  /\ highs.calls < MaxCalls
  /\ LET res == CallOf(Forwards(name), highs.opt, a) IN
       highs' = [opt |-> res.opt,
                 msgs |-> highs.msgs + 1,
                 calls |-> highs.calls + 1,
                 last |-> [name |-> name, fn |-> Forwards(name), arg |-> a,
                           pre |-> highs.opt, msg |-> Message(name),
                           msgsBefore |-> highs.msgs, res |-> res]]
  /\ UNCHANGED runVars

\* a direct call fn(a) of a replacement
CallDirect(fn, a) ==
  /\ highs.calls < MaxCalls
  /\ LET res == CallOf(fn, highs.opt, a) IN
       highs' = [opt |-> res.opt,
                 msgs |-> highs.msgs,
                 calls |-> highs.calls + 1,
                 last |-> [name |-> fn, fn |-> fn, arg |-> a,
                           pre |-> highs.opt, msg |-> <<"none", "none">>,
                           msgsBefore |-> highs.msgs, res |-> res]]
  /\ UNCHANGED runVars

DeprecatedCall == \E name \in Deprecated, a \in Args : CallDeprecated(name, a)
DirectCall == \E fn \in Replacements, a \in Args : CallDirect(fn, a)

\* ------------------------------------------------------------- run()
Init ==
  /\ pc = "root"
  /\ nodequeue = {}
  /\ cur = NoNode
  /\ curState = "none"
  /\ open = <<>>
  /\ stalled = <<>>
  /\ nextId = 1
  /\ closed = {}
  /\ num_nodes = 0
  /\ num_leaves = 0
  /\ plungestart = 0
  /\ lower_bound = 0 - 1
  /\ upper_bound = Inf
  /\ iterlimit = NoLimit
  /\ lpIters = 0
  /\ solveIters \in {0, SolveIters}
  /\ lpStatus = "NotSet"
  /\ storedBasis = 0
  /\ basis = 0
  /\ infeasible = FALSE
  /\ changedCols = {}
  /\ domchgstack = 0
  /\ localdomSynced = TRUE
  /\ pruned_treeweight = "partial"
  /\ shouldStop = FALSE
  /\ hist = [rootEmpty |-> FALSE, searched |-> FALSE, stopped |-> FALSE,
             afterStop |-> FALSE, fresh |-> FALSE, src |-> "none",
             plunging |-> FALSE, exit |-> "none", cleared |-> 0,
             anc |-> [i \in 1..MaxId |-> 0], basisAnc |-> 0,
             recovered |-> FALSE,
             limited |-> {}, tightened |-> FALSE,
             progress |-> "none"]
  /\ highs = NewHighs

\* lines 29-32: setup() and evaluateRootNode().  The root relaxation is
\* infeasible, or integer feasible (the incumbent), or it is branched on and
\* its open children are queued.
EvaluateRootNode ==
  /\ pc = "root"
  /\ lpIters' = lpIters + solveIters
  /\ \E r \in 0..MaxBound :
       /\ \/ /\ lpStatus' = "Infeasible"
             /\ UNCHANGED <<nodequeue, nextId, upper_bound>>
          \/ /\ lpStatus' = "Optimal"
             /\ upper_bound' = r
             /\ UNCHANGED <<nodequeue, nextId>>
          \/ /\ lpStatus' = "Optimal"
             /\ \E m \in 1..2 : \E kids \in NewNodes(nextId, m, r) :
                  /\ nodequeue' = Range(kids)
                  /\ nextId' = nextId + m
             /\ UNCHANGED upper_bound
  /\ hist' = [hist EXCEPT !.rootEmpty = (nodequeue' = {})]
  /\ pc' = "rootcheck"
  /\ UNCHANGED <<solveIters, stalled, highs>>
  /\ UNCHANGED <<cur, curState, open, closed, num_nodes, num_leaves,
                 plungestart, lower_bound, iterlimit, storedBasis, basis,
                 infeasible, changedCols, domchgstack, localdomSynced,
                 pruned_treeweight, shouldStop>>

\* (variant: the test of line 34 inverted)
RootSolvedInverted(q) == q # {}

\* line 34: the model was solved in the root node
RootSolved(q) == q = {}

\* lines 34-40
RootCheck ==
  /\ pc = "rootcheck"
  /\ pc' = IF RootSolved(nodequeue) THEN "done" ELSE "start"
  /\ UNCHANGED <<solveIters, stalled, highs>>
  /\ UNCHANGED <<hist, nodequeue, cur, curState, open, nextId, closed, num_nodes,
                 num_leaves, plungestart, lower_bound, upper_bound, iterlimit,
                 lpIters, lpStatus, storedBasis, basis, infeasible,
                 changedCols, domchgstack, localdomSynced, pruned_treeweight,
                 shouldStop>>

\* (variant: popBestNode called for the first install)
FirstPopBestEstimate(q) == popBestNode(q)

\* line 50: the nodes the first install may take from the queue
FirstPop(q) == popBestBoundNode(q)

\* lines 42-50: lower_bound = getBestLowerBound(); installNode(popBestBoundNode())
InstallFirst ==
  /\ pc = "start"
  /\ lower_bound' = getBestLowerBound(nodequeue, upper_bound)
  /\ \E n \in FirstPop(nodequeue) :
       /\ nodequeue' = nodequeue \ {n}
       /\ cur' = n
  /\ curState' = "installed"
  /\ hist' = [Did(hist, "installNode") EXCEPT !.fresh = TRUE, !.src = "queue"]
  /\ pc' = "loop"
  /\ UNCHANGED <<solveIters, stalled, highs>>
  /\ UNCHANGED <<open, nextId, closed, num_nodes, num_leaves, plungestart,
                 upper_bound, iterlimit, lpIters, lpStatus, storedBasis,
                 basis, infeasible, changedCols, domchgstack, localdomSynced,
                 pruned_treeweight, shouldStop>>

\* (variant: the outer loop never tests the controller)
SearchGoesOnAlways == TRUE

\* line 52: the condition of while (search.hasNode())
SearchGoesOn == hasNode

\* line 52: while (search.hasNode())
LoopHead ==
  /\ pc = "loop"
  /\ pc' = IF SearchGoesOn THEN "setlimit" ELSE "exit"
  /\ UNCHANGED <<solveIters, stalled, highs>>
  /\ UNCHANGED <<nodequeue, cur, curState, open, nextId, closed, num_nodes,
                 num_leaves, plungestart, lower_bound, upper_bound, iterlimit,
                 lpIters, lpStatus, storedBasis, basis, infeasible,
                 changedCols, domchgstack, localdomSynced, pruned_treeweight,
                 shouldStop, hist>>

\* (variant: the factor applied before the truncation to int)
DiveIterationLimitScaledFirst(iters, nn) == (IterMult * iters) \div Max2(1, nn)

\* lines 56-58: 10 * int(getNumLpIterations() / (double)max(1, num_nodes))
DiveIterationLimit(iters, nn) == IterMult * (iters \div Max2(1, nn))

\* lines 56-61: set the iteration limit of the dive; plungestart = num_nodes
SetLimit ==
  /\ pc = "setlimit"
  /\ iterlimit' = DiveIterationLimit(lpIters, num_nodes)
  /\ plungestart' = num_nodes
  /\ hist' = [hist EXCEPT !.plunging = TRUE, !.exit = "none",
                          !.progress = "none"]
  /\ pc' = "dive"
  /\ UNCHANGED <<solveIters, stalled, highs>>
  /\ UNCHANGED <<nodequeue, cur, curState, open, nextId, closed, num_nodes,
                 num_leaves, lower_bound, upper_bound, lpIters, lpStatus,
                 storedBasis, basis, infeasible, changedCols, domchgstack,
                 localdomSynced, pruned_treeweight, shouldStop>>

\* the statuses a relaxation solve under the limit `lim` may end with: the
\* limit can be reached when the solve needs no fewer iterations than it
SolveStatuses(lim) ==
  {"Optimal", "Infeasible", "Error"} \cup
  (IF lim = NoLimit \/ lim > solveIters THEN {} ELSE {"IterationLimitReached"})

\* the incumbent bounds a node of bound lo may leave: the old one, or the
\* value of a better integer feasible solution found under the node
Incumbents(lo, ub) == {ub} \cup {v \in lo..MaxBound : v < ub}

\* HighsSearch::dive down to a pruned leaf: it evaluates the n nodes of a
\* path from the current node down to the leaf; the siblings left open on
\* the way are collected (a sibling the branching closes at once is counted,
\* not kept).  A node whose bound has reached the cutoff is itself the
\* pruned leaf.
DiveToLeaf ==
  /\ \E n \in DiveLens :
       /\ n > 1 => cur.lb < upper_limit
       /\ \E m \in 0..Min2(Min2(n - 1, 2), MaxId + 1 - nextId) :
            \E sibs \in NewNodes(nextId, m, cur.lb) :
              /\ open' = open \o sibs
              /\ nextId' = nextId + m
       /\ num_nodes' = num_nodes + n
       /\ lpIters' = lpIters + solveIters * n
  /\ closed' = closed \cup {cur.id}
  /\ upper_bound' \in Incumbents(cur.lb, upper_bound)
  /\ lpStatus' \in {"Optimal", "Infeasible"}
  /\ hist' = [Did(hist, "dive") EXCEPT
                !.fresh = FALSE,
                !.progress = "closed",
                !.anc = [i \in 1..MaxId |->
                           IF i >= nextId /\ i < nextId' THEN cur.id
                           ELSE IF i = cur.id THEN 0 ELSE @[i]]]
  /\ UNCHANGED stalled

\* HighsSearch::dive stopped by the iteration limit: the capped solve of the
\* current node, not evaluated before, ends with IterationLimitReached after
\* `iterlimit` iterations.  The node is not discarded: the controller keeps
\* it among its open nodes and does not return to it in this plunge.
DiveToLimit ==
  /\ curState = "installed"
  /\ "IterationLimitReached" \in SolveStatuses(iterlimit)
  /\ stalled' = Append(stalled, cur)
  /\ hist' = [Did(hist, "dive") EXCEPT
                !.fresh = FALSE,
                !.limited = @ \cup {cur.id},
                !.progress = IF @ = "none" THEN "stalled" ELSE @]
  /\ num_nodes' = num_nodes + 1
  /\ lpIters' = lpIters + iterlimit
  /\ lpStatus' = "IterationLimitReached"
  /\ UNCHANGED <<open, nextId, closed, upper_bound>>

\* lines 63-66: dive(); ++num_leaves; flushStatistics() (the nodes of the
\* dive are added to num_nodes)
Dive ==
  /\ pc = "dive"
  /\ curState \in {"installed", "evaluated"}
  /\ \/ DiveToLeaf /\ curState' = "pruned"
     \/ DiveToLimit /\ curState' = "limit"
  /\ cur' = NoNode
  /\ num_leaves' = num_leaves + 1
  /\ pc' = "backtrack"
  /\ UNCHANGED <<solveIters, highs>>
  /\ UNCHANGED <<nodequeue, plungestart, lower_bound, iterlimit, storedBasis,
                 basis, infeasible, changedCols, domchgstack, localdomSynced,
                 pruned_treeweight, shouldStop>>

\* HighsSearch::backtrack: whether an unexplored sibling remains
backtrack(o) == o # <<>>

\* line 67: if (!search.backtrack()) break;
Backtrack ==
  /\ pc = "backtrack"
  /\ IF backtrack(open)
       THEN /\ cur' = open[Len(open)]
            /\ open' = SubSeq(open, 1, Len(open) - 1)
            /\ curState' = "installed"
            /\ hist' = [hist EXCEPT !.src = "backtrack"]
            /\ pc' = "estimate"
       ELSE /\ cur' = NoNode
            /\ curState' = "none"
            /\ hist' = [hist EXCEPT !.src = "none", !.exit = "backtrack"]
            /\ pc' = "toqueue"
            /\ UNCHANGED open
  /\ UNCHANGED <<solveIters, stalled, highs>>
  /\ UNCHANGED <<nodequeue, nextId, closed, num_nodes, num_leaves,
                 plungestart, lower_bound, upper_bound, iterlimit, lpIters,
                 lpStatus, storedBasis, basis, infeasible, changedCols,
                 domchgstack, localdomSynced, pruned_treeweight, shouldStop>>

\* line 69: if (search.getCurrentEstimate() >= mipdata_->upper_limit) break;
EstimateCheck ==
  /\ pc = "estimate"
  /\ IF getCurrentEstimate >= upper_limit
       THEN /\ pc' = "toqueue"
            /\ hist' = [hist EXCEPT !.exit = "estimate"]
       ELSE /\ pc' = "cap"
            /\ UNCHANGED hist
  /\ UNCHANGED <<solveIters, stalled, highs>>
  /\ UNCHANGED <<nodequeue, cur, curState, open, nextId, closed, num_nodes,
                 num_leaves, plungestart, lower_bound, upper_bound, iterlimit,
                 lpIters, lpStatus, storedBasis, basis, infeasible,
                 changedCols, domchgstack, localdomSynced, pruned_treeweight,
                 shouldStop>>

\* (variant: the cap tested with > for >=)
PlungeCapExceeded(nn, ps) == nn - ps > PlungeCap

\* line 71: mipdata_->num_nodes - plungestart >= 1000
PlungeCapReached(nn, ps) == nn - ps >= PlungeCap

\* lines 71-80: if (num_nodes - plungestart >= 1000) break; else dive again
CapCheck ==
  /\ pc = "cap"
  /\ IF PlungeCapReached(num_nodes, plungestart)
       THEN /\ pc' = "toqueue"
            /\ hist' = [hist EXCEPT !.exit = "cap"]
       ELSE /\ pc' = "dive"
            /\ UNCHANGED hist
  /\ UNCHANGED <<solveIters, stalled, highs>>
  /\ UNCHANGED <<nodequeue, cur, curState, open, nextId, closed, num_nodes,
                 num_leaves, plungestart, lower_bound, upper_bound, iterlimit,
                 lpIters, lpStatus, storedBasis, basis, infeasible,
                 changedCols, domchgstack, localdomSynced, pruned_treeweight,
                 shouldStop>>

\* (variant: the node the controller is at is not handed over)
QueueAfterPlungeSiblingsOnly(q, c, st, o) == q \cup Range(o)

\* line 81: the queue after search.openNodesToQueue(mipdata_->nodequeue)
QueueAfterPlunge(q, c, st, o) == openNodesToQueue(q, c, st, o)

\* (variant: the queue's best bound taken without the incumbent bound)
GlobalLowerBoundQueueOnly(ub, q) == getBestLowerBound(q, ub)

\* lines 82-83 and 153-154: std::min(upper_bound, getBestLowerBound())
GlobalLowerBound(ub, q) == Min2(ub, getBestLowerBound(q, ub))

\* lines 81-91: openNodesToQueue; recompute lower_bound
OpenNodesToQueue ==
  /\ pc = "toqueue"
  /\ nodequeue' = QueueAfterPlunge(nodequeue, cur, curState, stalled \o open)
  /\ cur' = NoNode
  /\ curState' = "none"
  /\ open' = <<>>
  /\ stalled' = <<>>
  /\ lower_bound' = GlobalLowerBound(upper_bound, nodequeue')
  /\ hist' = [hist EXCEPT !.plunging = FALSE, !.src = "none"]
  /\ pc' = "propagate"
  /\ UNCHANGED <<solveIters, highs>>
  /\ UNCHANGED <<nextId, closed, num_nodes, num_leaves, plungestart,
                 upper_bound, iterlimit, lpIters, lpStatus, storedBasis,
                 basis, infeasible, changedCols, domchgstack, localdomSynced,
                 pruned_treeweight, shouldStop>>

\* line 94: mipdata_->domain.propagate(): the global domain is found
\* infeasible or not, and the columns in ch are tightened
Propagate ==
  /\ pc = "propagate"
  /\ infeasible' \in BOOLEAN
  /\ \E ch \in SUBSET Cols :
       /\ changedCols' = changedCols \cup ch
       /\ domchgstack' = domchgstack + Cardinality(ch)
       /\ localdomSynced' = (localdomSynced /\ ch = {})
       /\ hist' = [Did(hist, "propagate") EXCEPT !.tightened = (ch # {})]
  /\ pc' = "infeascheck"
  /\ UNCHANGED <<solveIters, stalled, highs>>
  /\ UNCHANGED <<nodequeue, cur, curState, open, nextId, closed, num_nodes,
                 num_leaves, plungestart, lower_bound, upper_bound, iterlimit,
                 lpIters, lpStatus, storedBasis, basis, pruned_treeweight,
                 shouldStop>>

\* (variant: the queue is not cleared)
QueueKeptAfterInfeasible(q) == q

\* line 107: mipdata_->nodequeue.clear()
QueueAfterInfeasible(q) == {}

\* (variant: no break, run() goes on after line 110)
AfterInfeasibleGoOn == "changed"

\* line 109: break (leave the tree search)
AfterInfeasible == "exit"

\* lines 106-110: if global propagation detected infeasibility, stop here
InfeasibleCheck ==
  /\ pc = "infeascheck"
  /\ IF infeasible
       THEN /\ nodequeue' = QueueAfterInfeasible(nodequeue)
            /\ closed' = closed \cup Ids(nodequeue \ nodequeue')
            /\ pruned_treeweight' = "full"
            /\ hist' = [hist EXCEPT !.stopped = TRUE,
                                    !.cleared = Cardinality(nodequeue),
                                    !.anc = [i \in 1..MaxId |-> 0]]
            /\ pc' = AfterInfeasible
       ELSE /\ pc' = "changed"
            /\ UNCHANGED <<nodequeue, closed, pruned_treeweight, hist>>
  /\ UNCHANGED <<solveIters, stalled, highs>>
  /\ UNCHANGED <<cur, curState, open, nextId, num_nodes, num_leaves,
                 plungestart, lower_bound, upper_bound, iterlimit, lpIters,
                 lpStatus, storedBasis, basis, infeasible, changedCols,
                 domchgstack, localdomSynced, shouldStop>>

\* (variant: the test of line 113 never succeeds)
GlobalChangesNever(cc) == FALSE

\* line 113: if (!mipdata_->domain.getChangedCols().empty())
GlobalChanges(cc) == cc # {}

\* lines 113-121: global bound changes: reset the change stack and the
\* local domain, clear the changed columns
UpdateLocalDomain ==
  /\ pc = "changed"
  /\ IF GlobalChanges(changedCols)
       THEN /\ domchgstack' = 0
            /\ localdomSynced' = TRUE
            /\ changedCols' = {}
       ELSE UNCHANGED <<domchgstack, localdomSynced, changedCols>>
  /\ pc' = "clearlimit"
  /\ UNCHANGED <<solveIters, stalled, highs>>
  /\ UNCHANGED <<nodequeue, cur, curState, open, nextId, closed, num_nodes,
                 num_leaves, plungestart, lower_bound, upper_bound, iterlimit,
                 lpIters, lpStatus, storedBasis, basis, infeasible,
                 pruned_treeweight, shouldStop, hist>>

\* (variant: the limit of the dive is left in place)
ClearLimitSkipped ==
  /\ pc = "clearlimit"
  /\ hist' = [hist EXCEPT !.tightened = FALSE]
  /\ pc' = "qloop"
  /\ UNCHANGED <<solveIters, stalled, iterlimit, highs>>
  /\ UNCHANGED <<nodequeue, cur, curState, open, nextId, closed, num_nodes,
                 num_leaves, plungestart, lower_bound, upper_bound, lpIters,
                 lpStatus, storedBasis, basis, infeasible, changedCols,
                 domchgstack, localdomSynced, pruned_treeweight, shouldStop>>

\* line 124: mipdata_->lp.setIterationLimit()
ClearLimit ==
  /\ pc = "clearlimit"
  /\ iterlimit' = NoLimit
  /\ hist' = [hist EXCEPT !.tightened = FALSE]
  /\ pc' = "qloop"
  /\ UNCHANGED <<solveIters, stalled, highs>>
  /\ UNCHANGED <<nodequeue, cur, curState, open, nextId, closed, num_nodes,
                 num_leaves, plungestart, lower_bound, upper_bound, lpIters,
                 lpStatus, storedBasis, basis, infeasible, changedCols,
                 domchgstack, localdomSynced, pruned_treeweight, shouldStop>>

\* line 127: while (!mipdata_->nodequeue.empty())
QueueLoop ==
  /\ pc = "qloop"
  /\ pc' = IF nodequeue # {} THEN "install" ELSE "loop"
  /\ UNCHANGED <<solveIters, stalled, highs>>
  /\ UNCHANGED <<nodequeue, cur, curState, open, nextId, closed, num_nodes,
                 num_leaves, plungestart, lower_bound, upper_bound, iterlimit,
                 lpIters, lpStatus, storedBasis, basis, infeasible,
                 changedCols, domchgstack, localdomSynced, pruned_treeweight,
                 shouldStop, hist>>

\* (variant: popBestBoundNode called in the install loop)
NextPopBestBound(q) == popBestBoundNode(q)

\* line 131: the nodes mipdata_->nodequeue.popBestNode() may remove
NextPop(q) == popBestNode(q)

\* (variant: the basis is set without the test of line 136)
ApplyBasisAlways(b) == TRUE

\* line 136: if (basis)
ApplyBasis(b) == b # 0

\* lines 130-139: installNode(popBestNode()); set the current basis if any
InstallNext ==
  /\ pc = "install"
  /\ \E n \in NextPop(nodequeue) :
       /\ nodequeue' = nodequeue \ {n}
       /\ cur' = n
  /\ curState' = "installed"
  /\ storedBasis' = IF ApplyBasis(basis) THEN basis ELSE storedBasis
  /\ hist' = [Did(hist, "installNode") EXCEPT !.fresh = TRUE, !.src = "queue",
                                             !.recovered = ApplyBasis(basis)]
  /\ pc' = "evaluate"
  /\ UNCHANGED <<solveIters, stalled, highs>>
  /\ UNCHANGED <<open, nextId, closed, num_nodes, num_leaves, plungestart,
                 lower_bound, upper_bound, iterlimit, lpIters, lpStatus,
                 basis, infeasible, changedCols, domchgstack, localdomSynced,
                 pruned_treeweight, shouldStop>>

\* line 144: search.evaluateNode(): the relaxation is solved to the bound
\* obj; the node is pruned when it is infeasible, when obj reaches the
\* cutoff, or when the solution is integer feasible (the new incumbent)
EvaluateNode ==
  /\ pc = "evaluate"
  /\ \E obj \in cur.lb..MaxBound, st \in SolveStatuses(iterlimit) :
       /\ lpStatus' = st
       /\ cur' = [cur EXCEPT !.lb = obj, !.est = Max2(@, obj)]
       /\ IF st = "Infeasible" \/ (st = "Optimal" /\ obj >= upper_limit)
            THEN /\ curState' = "pruned"
                 /\ UNCHANGED upper_bound
            ELSE IF st = "Optimal"
              THEN \/ /\ curState' = "pruned"
                      /\ upper_bound' = obj
                   \/ /\ curState' = "evaluated"
                      /\ UNCHANGED upper_bound
              ELSE /\ curState' = "evaluated"
                   /\ UNCHANGED upper_bound
  /\ closed' = IF curState' = "pruned" THEN closed \cup {cur.id} ELSE closed
  /\ lpIters' = lpIters + solveIters
  /\ hist' = [Did(hist, "evaluateNode") EXCEPT
                !.fresh = FALSE,
                !.recovered = FALSE,
                !.limited = @ \ {cur.id},
                !.anc = IF curState' = "pruned"
                          THEN [@ EXCEPT ![cur.id] = 0] ELSE @,
                !.progress = IF curState' = "pruned" THEN "closed" ELSE @]
  /\ pc' = "prunedcheck"
  /\ UNCHANGED <<solveIters, stalled, highs>>
  /\ UNCHANGED <<nodequeue, open, nextId, num_nodes, num_leaves, plungestart,
                 lower_bound, iterlimit, storedBasis, basis, infeasible,
                 changedCols, domchgstack, localdomSynced, pruned_treeweight,
                 shouldStop>>

\* (variant: the pruned test of line 148 dropped)
SkipSeparationNever == FALSE

\* line 148: if (search.currentNodePruned())
SkipSeparation == currentNodePruned

\* lines 148-156: a pruned node is removed from the search and counted
PrunedCheck ==
  /\ pc = "prunedcheck"
  /\ IF SkipSeparation
       THEN /\ IF backtrack(open)
                 THEN /\ cur' = open[Len(open)]
                      /\ open' = SubSeq(open, 1, Len(open) - 1)
                      /\ curState' = "installed"
                 ELSE /\ cur' = NoNode
                      /\ curState' = "none"
                      /\ UNCHANGED open
            /\ num_leaves' = num_leaves + 1
            /\ num_nodes' = num_nodes + 1
            /\ lower_bound' = GlobalLowerBound(upper_bound, nodequeue)
            /\ hist' = [hist EXCEPT !.src = "pruned"]
            /\ pc' = "qloop"
       ELSE /\ pc' = "separate"
            /\ UNCHANGED <<cur, curState, open, num_leaves, num_nodes,
                           lower_bound, hist>>
  /\ UNCHANGED <<solveIters, stalled, highs>>
  /\ UNCHANGED <<nodequeue, nextId, closed, plungestart, upper_bound,
                 iterlimit, lpIters, lpStatus, storedBasis, basis, infeasible,
                 changedCols, domchgstack, localdomSynced, pruned_treeweight,
                 shouldStop>>

\* line 159: sepa.separate(search.getLocalDomain()): cuts are added and the
\* relaxation may be solved again
Separate ==
  /\ pc = "separate"
  /\ lpStatus' \in {lpStatus, "Optimal", "Error", "NotSet"}
  /\ hist' = Did(hist, "separate")
  /\ pc' = "storebasis"
  /\ UNCHANGED <<solveIters, stalled, highs>>
  /\ UNCHANGED <<nodequeue, cur, curState, open, nextId, closed, num_nodes,
                 num_leaves, plungestart, lower_bound, upper_bound, iterlimit,
                 lpIters, storedBasis, basis, infeasible, changedCols,
                 domchgstack, localdomSynced, pruned_treeweight, shouldStop>>

\* (variant: the install loop goes on after the separation)
AfterSeparationContinue == "qloop"

\* line 169: break; the install loop is left with the node installed
AfterSeparation == "loop"

\* (variant: only the status Error is tested)
BasisUsableUnlessError(st) == st # "Error"

\* lines 163-164: getStatus() != Status::Error && getStatus() != Status::NotSet
BasisUsable(st) == st # "Error" /\ st # "NotSet"

\* lines 163-169: store the basis unless the relaxation failed; keep it
StoreBasis ==
  /\ pc = "storebasis"
  /\ storedBasis' = IF BasisUsable(lpStatus) THEN cur.id ELSE storedBasis
  /\ basis' = storedBasis'
  /\ hist' = IF storedBasis' # storedBasis \/ lpStatus \notin {"Error", "NotSet"}
               THEN [Did(hist, "storeBasis") EXCEPT
                       !.basisAnc = hist.anc[cur.id]]
               ELSE hist
  /\ pc' = AfterSeparation
  /\ UNCHANGED <<solveIters, stalled, highs>>
  /\ UNCHANGED <<nodequeue, cur, curState, open, nextId, closed, num_nodes,
                 num_leaves, plungestart, lower_bound, upper_bound, iterlimit,
                 lpIters, lpStatus, infeasible, changedCols, domchgstack,
                 localdomSynced, pruned_treeweight, shouldStop>>

\* lines 173-174: stop the clock, print the last display line
Finish ==
  /\ pc = "exit"
  /\ pc' = "done"
  /\ UNCHANGED <<solveIters, stalled, highs>>
  /\ UNCHANGED <<nodequeue, cur, curState, open, nextId, closed, num_nodes,
                 num_leaves, plungestart, lower_bound, upper_bound, iterlimit,
                 lpIters, lpStatus, storedBasis, basis, infeasible,
                 changedCols, domchgstack, localdomSynced, pruned_treeweight,
                 shouldStop, hist>>

\* the external limiter raises its should-stop signal
RaiseStop ==
  /\ pc # "done"
  /\ ~shouldStop
  /\ shouldStop' = TRUE
  /\ UNCHANGED <<solveIters, stalled, highs>>
  /\ UNCHANGED <<pc, nodequeue, cur, curState, open, nextId, closed,
                 num_nodes, num_leaves, plungestart, lower_bound, upper_bound,
                 iterlimit, lpIters, lpStatus, storedBasis, basis, infeasible,
                 changedCols, domchgstack, localdomSynced, pruned_treeweight,
                 hist>>

\* the head of an outer iteration with any counts of LP iterations and of
\* nodes up to MaxIters and MaxNodes
InitLimit ==
  /\ pc = "setlimit"
  /\ nodequeue = {}
  /\ cur = [id |-> 1, lb |-> 0, est |-> 0]
  /\ curState = "installed"
  /\ open = <<>>
  /\ stalled = <<>>
  /\ nextId = 2
  /\ closed = {}
  /\ num_nodes \in 0..MaxNodes
  /\ num_leaves = 0
  /\ plungestart = 0
  /\ lower_bound = 0
  /\ upper_bound = Inf
  /\ iterlimit = NoLimit
  /\ lpIters \in 0..MaxIters
  /\ solveIters = 0
  /\ lpStatus = "Optimal"
  /\ storedBasis = 0
  /\ basis = 0
  /\ infeasible = FALSE
  /\ changedCols = {}
  /\ domchgstack = 0
  /\ localdomSynced = TRUE
  /\ pruned_treeweight = "partial"
  /\ shouldStop = FALSE
  /\ hist = [rootEmpty |-> FALSE, searched |-> TRUE, stopped |-> FALSE,
             afterStop |-> FALSE, fresh |-> TRUE, src |-> "queue",
             plunging |-> FALSE, exit |-> "none", cleared |-> 0,
             anc |-> [i \in 1..MaxId |-> 0], basisAnc |-> 0,
             recovered |-> FALSE,
             limited |-> {}, tightened |-> FALSE,
             progress |-> "none"]
  /\ highs = NewHighs

\* lines 56-61 applied to these counts
SpecLimit == InitLimit /\ [][SetLimit]_vars

Next ==
  \/ EvaluateRootNode
  \/ RootCheck
  \/ InstallFirst
  \/ LoopHead
  \/ SetLimit
  \/ Dive
  \/ Backtrack
  \/ EstimateCheck
  \/ CapCheck
  \/ OpenNodesToQueue
  \/ Propagate
  \/ InfeasibleCheck
  \/ UpdateLocalDomain
  \/ ClearLimit
  \/ QueueLoop
  \/ InstallNext
  \/ EvaluateNode
  \/ PrunedCheck
  \/ Separate
  \/ StoreBasis
  \/ Finish

Spec == Init /\ [][Next]_vars

\* run() with the external limiter, which may raise its signal at any time
NextStop == Next \/ RaiseStop
SpecStop == Init /\ [][NextStop]_vars

\* calls of the accessors on a Highs object, run() not started
NextHighs == DeprecatedCall \/ DirectCall
SpecHighs == Init /\ [][NextHighs]_vars

\* a step of run() that moves it on
RunStep == Next /\ pc' # pc

\* run() is one thread of sequential code: while a step of it is possible
\* it is taken
FairSpec == Init /\ [][Next]_vars /\ WF_vars(RunStep)

\* ============================================================ properties
\* ids of the nodes created and not yet closed
OpenIds == (1..(nextId - 1)) \ closed
\* ids of the nodes the controller holds open
HeldIds == Ids(heldOpen(cur, curState, stalled \o open))
\* the places of run() inside a plunge, after its first dive started
PlungePcs == {"dive", "backtrack", "estimate", "cap", "toqueue"}

\* C1: no open node is ever lost.  At every point of run() the nodes created
\* and not yet closed are exactly the nodes held by the search controller
\* together with the nodes in the queue (no node twice), and right after
\* openNodesToQueue, whatever exit the plunge took, all of them are queued.
C1_NoOpenNodeLost ==
  /\ OpenIds = HeldIds \cup Ids(nodequeue)
  /\ HeldIds \cap Ids(nodequeue) = {}
  /\ Cardinality(Ids(nodequeue)) = Cardinality(nodequeue)
  /\ Cardinality(HeldIds) = Cardinality(heldOpen(cur, curState, stalled \o open))
  /\ pc \in {"propagate", "infeascheck"} =>
       (HeldIds = {} /\ OpenIds = Ids(nodequeue))

\* C1 witness: a plunge left by the node cap, its open nodes now queued
C1_Witness ==
  /\ pc = "propagate"
  /\ hist.exit = "cap"
  /\ Cardinality(nodequeue) >= 1
  /\ OpenIds = Ids(nodequeue)

\* C2: within a plunge no dive is started once num_nodes - plungestart has
\* reached the cap of 1000: from the flush that reaches the cap on, run() is
\* at the tests that follow the dive or at openNodesToQueue, never at dive.
C2_NoDiveAfterCap ==
  (hist.plunging /\ num_nodes - plungestart >= PlungeCap) =>
     pc \in {"backtrack", "estimate", "cap", "toqueue"}

\* C2 witness: the plunge was left by the cap test with backtrack() having
\* succeeded and the estimate below the cutoff
C2_Witness ==
  /\ pc = "toqueue"
  /\ hist.exit = "cap"
  /\ num_nodes - plungestart >= PlungeCap
  /\ hasNode

\* C3: the global lower bound never decreases: every value run() assigns to
\* lower_bound is at least the value it replaces.
C3_LowerBoundMonotone == [][lower_bound' >= lower_bound]_vars

\* C3 witness: after a plunge the bound was set from the incumbent, which is
\* below the best bound queued
C3_Witness ==
  /\ pc = "propagate"
  /\ nodequeue # {}
  /\ upper_bound < getBestLowerBound(nodequeue, upper_bound)
  /\ lower_bound = upper_bound

C5_QueueNodesSolvedUncapped ==
  [][(hist.fresh /\ ~hist'.fresh) => iterlimit = NoLimit]_vars

\* C6: once global propagation has found the global domain infeasible and
\* run() has acted on it, the queue is empty, the tree counts as fully
\* pruned, run() has left the tree search, and no tree-search step (install,
\* evaluate, dive, propagate, separate, store basis) runs after it.
C6_InfeasibleStopsSearch ==
  (infeasible /\ pc # "infeascheck") =>
     /\ nodequeue = {}
     /\ pruned_treeweight = "full"
     /\ pc \in {"exit", "done"}
     /\ ~hasNode
     /\ hist.stopped /\ ~hist.afterStop

\* C6 witness: run() finished after the infeasibility stop discarded nodes
C6_Witness ==
  /\ pc = "done"
  /\ infeasible
  /\ hist.cleared >= 1

\* C7: when run() has left the tree search the queue is empty and the
\* controller holds no node.
C7_ExitMeansNothingOpen ==
  pc \in {"exit", "done"} => (nodequeue = {} /\ ~hasNode /\ open = <<>>)

\* C7 witness: the outer loop ended by its condition after nodes were
\* searched
C7_Witness ==
  /\ pc = "exit"
  /\ ~infeasible
  /\ num_nodes >= 2
  /\ closed = 1..(nextId - 1)

\* C8: if the queue is empty after the root evaluation run() returns at
\* once: only the root was solved, the queue is still empty, and no step of
\* the tree search has run.
C8_RootSolvedReturns ==
  (hist.rootEmpty /\ pc # "rootcheck") =>
     /\ pc = "done"
     /\ ~hist.searched
     /\ nodequeue = {}
     /\ ~hasNode
     /\ lpIters = solveIters
     /\ num_nodes = 0 /\ num_leaves = 0

\* C8 witness: the root solution was integer feasible and run() is done
C8_Witness ==
  /\ pc = "done"
  /\ hist.rootEmpty
  /\ upper_bound < Inf

\* C9 as claimed: with the should-stop signal raised at the head of the
\* outer loop, run() leaves the loop instead of starting another plunge.
C9_StopPolledAtLoopHead ==
  [][(pc = "loop" /\ shouldStop /\ pc' # pc) => pc' = "exit"]_vars

\* C10: separation runs only on a node that was installed from the queue,
\* evaluated and found not pruned, and never inside a plunge.
C10_SeparationOnlyOnSurvivors ==
  /\ pc = "separate" =>
       /\ hist.src = "queue"
       /\ curState = "evaluated"
       /\ ~hist.fresh
       /\ ~hist.plunging
  /\ hist.plunging => pc \in PlungePcs

\* C10 witness: separation has run on a surviving node
C10_Witness ==
  /\ pc = "storebasis"
  /\ hist.src = "queue"
  /\ curState = "evaluated"

\* the open node a is structurally adjacent to the node b the basis was
\* stored at: the same node, one the nearest kept ancestor of the other, or
\* both below the same nearest kept ancestor
Adjacent(a, b) ==
  \/ a = b
  \/ hist.anc[a] = b
  \/ hist.basisAnc = a
  \/ hist.anc[a] = hist.basisAnc

\* C11: when a node is installed from the queue the stored basis
\* is applied (setStoredBasis, recoverBasis) only if the node is adjacent to
\* the node at which the basis was stored.
C11_BasisOnlyForAdjacentNode ==
  [][(pc = "install" /\ pc' # pc /\ hist'.recovered) =>
       Adjacent(cur'.id, basis)]_vars

C14_AssertionsHold ==
  /\ pc \in {"propagate", "infeascheck", "changed", "clearlimit", "qloop",
             "install"} => ~hasNode
  /\ pc = "evaluate" => (hasNode /\ cur # NoNode)
  /\ (pc = "loop" /\ hist.fresh) => hasNode

\* C14 witness: the install loop is at line 130 again after a node was
\* pruned at its evaluation and backtrack() was called on it
C14_Witness ==
  /\ pc = "install"
  /\ ~hasNode
  /\ hist.src = "pruned"
  /\ nodequeue # {}

\* C15: when run() ends after the tree search with the tree resolved (no
\* queued node, no installed node) and an incumbent exists, the final
\* lower_bound equals upper_bound, on every termination path.
C15_FinalGapZero ==
  (pc = "done" /\ hist.searched /\ nodequeue = {} /\ ~hasNode /\
   upper_bound # Inf) => lower_bound = upper_bound

\* C16: after a global propagation that did not find infeasibility, the
\* step of lines 113-121 empties the change stack, resets the local domain
\* and clears the changed columns when the propagation tightened a bound,
\* and leaves the three as they are when it tightened none; either way no
\* column is marked changed while the install loop runs.
C16_LocalDomainUpdatedAfterPropagation ==
  /\ [][(pc = "changed" /\ pc' # pc) =>
          IF hist.tightened
            THEN domchgstack' = 0 /\ localdomSynced' /\ changedCols' = {}
            ELSE UNCHANGED <<domchgstack, localdomSynced, changedCols>>]_vars
  /\ [](pc \in {"clearlimit", "qloop", "install", "evaluate"} =>
          (changedCols = {} /\ localdomSynced))

\* C16 witness: the propagation tightened bounds; the change stack is
\* emptied, the local domain reset and the changed columns cleared, and the
\* install loop is about to start
C16_Witness ==
  /\ pc = "clearlimit"
  /\ hist.tightened
  /\ changedCols = {}
  /\ localdomSynced
  /\ domchgstack = 0
  /\ ~infeasible
  /\ nodequeue # {}

\* C17: after the separation on a node that survived its evaluation, the
\* relaxation stores the basis of that node only when its status is neither
\* Error nor NotSet; with one of these the stored basis stays as it was.
\* The handle run() keeps for the later installs is the basis stored at that
\* moment, none when none was ever stored.
C17_BasisStoredUnlessFailed ==
  /\ [][(pc = "storebasis" /\ pc' # pc) =>
          /\ lpStatus \notin {"Error", "NotSet"} => storedBasis' = cur.id
          /\ lpStatus \in {"Error", "NotSet"} => storedBasis' = storedBasis
          /\ basis' = storedBasis'
          /\ lpStatus' = lpStatus]_vars
  /\ [](basis = storedBasis)

\* C17 witness: the separation failed at a node and the basis stored at
\* another node earlier is kept
C17_Witness ==
  /\ pc = "loop"
  /\ curState = "evaluated"
  /\ lpStatus \in {"Error", "NotSet"}
  /\ basis # 0
  /\ basis # cur.id
  /\ storedBasis = basis

\* C18: the limit set at the start of an outer iteration is
\* 10 * floor(LP iterations / max(1, num_nodes)): it is defined for
\* num_nodes = 0, it is a multiple of 10 that is not negative, and it is 0
\* when the LP iterations are fewer than the nodes.
C18_DiveLimitIsTenTimesAverage ==
  [][(pc = "setlimit" /\ pc' # pc) =>
       /\ iterlimit' >= 0
       /\ iterlimit' % IterMult = 0
       /\ iterlimit' * Max2(1, num_nodes) <= IterMult * lpIters
       /\ IterMult * lpIters < (iterlimit' + IterMult) * Max2(1, num_nodes)
       /\ lpIters < num_nodes => iterlimit' = 0
       /\ num_nodes = 0 => iterlimit' = IterMult * lpIters
       /\ UNCHANGED <<lpIters, num_nodes>>]_vars

\* C18 witness: the limit was set with no node counted yet
C18_Witness ==
  /\ pc = "dive"
  /\ num_nodes = 0
  /\ plungestart = 0
  /\ lpIters > 0
  /\ iterlimit = IterMult * lpIters

C20_DeprecatedEquivalentToReplacement ==
  highs.last.name \in Deprecated =>
    LET direct == CallOf(highs.last.msg[2], highs.last.pre, highs.last.arg) IN
      /\ highs.last.res = direct
      /\ highs.opt = direct.opt
      /\ highs.msgs = highs.last.msgsBefore + 1
      /\ highs.last.msg[1] = highs.last.name
      /\ highs.last.msg[2] \in Replacements

\* C20 witness: the deprecated setter was called with a valid value on an
\* object holding another value, and changed the option
C20_Witness ==
  /\ highs.last.name = "setHighsOptionValue"
  /\ highs.last.res.status = "kOk"
  /\ highs.opt = highs.last.arg
  /\ highs.opt # highs.last.pre
  /\ highs.msgs = 1

====
